---------------------------- MODULE Spec2Model ----------------------------
(***************************************************************************)
(* Model of pkg/models/observability/monitoring/monitoring.go: the         *)
(* monitoringOperator facade over the monitoring backend client, the       *)
(* namespace rewrite registry, and the entity counters GetKubeSphereStats  *)
(* and GetWorkspaceStats.                                                  *)
(***************************************************************************)
EXTENDS Integers, Sequences, FiniteSets, TLC

(***************************************************************************)
(* Bounds of the model.                                                    *)
(***************************************************************************)
MaxClusters == 2
MaxWorkspaces == 3
MaxUsers == 5
MaxBindings == 2
MaxNames == 2

(***************************************************************************)
(* Small input universes.                                                  *)
(***************************************************************************)
Workspaces == {"ws1", "ws2"}
UserRefs == {"alice", "bob"}
Times == {1700000000, 1700000060}
NoLabel == "<no label>"
Nil == "<nil>"
ListErrMsg == "list failed"

WorkspaceLabelKey == "kubesphere.io/workspace"
UserReferenceLabel == "iam.kubesphere.io/user-ref"

KubeSphereClusterCount == "KubeSphereClusterCount"
KubeSphereWorkspaceCount == "KubeSphereWorkspaceCount"
KubeSphereUserCount == "KubeSphereUserCount"
WorkspaceNamespaceCount == "WorkspaceNamespaceCount"
WorkspaceDevopsCount == "WorkspaceDevopsCount"
WorkspaceMemberCount == "WorkspaceMemberCount"
WorkspaceRoleCount == "WorkspaceRoleCount"

ClusterKinds == {"cluster", "workspace", "user"}
WorkspaceKinds == {"namespace", "devops", "member", "role"}

VARIABLES
    clusters,               \* objects in the Cluster informer cache
    workspaceTemplates,     \* objects in the WorkspaceTemplate informer cache
    users,                  \* objects in the User informer cache
    namespaces,             \* labelled Namespace objects
    devopsProjects,         \* labelled DevOpsProject objects
    workspaceRoles,         \* labelled WorkspaceRole objects
    workspaceRoleBindings,  \* labelled WorkspaceRoleBinding objects
    ReplaceNamespaceFns,    \* keys of the rewrite registry
    promDown,               \* whether the monitoring backend is unreachable
    stats,                  \* the most recent completed counter call
    query,                  \* the most recent completed facade call
    prevQuery,              \* the facade call completed before it
    procs                   \* concurrent callers: position and local response

store == <<clusters, workspaceTemplates, users, namespaces, devopsProjects,
           workspaceRoles, workspaceRoleBindings>>
shared == <<store, ReplaceNamespaceFns, promDown>>
vars == <<shared, stats, query, prevQuery, procs>>

(***************************************************************************)
(* monitoring.Metric, as the counters build it.                            *)
(***************************************************************************)
ErrorMetric(name, err) ==
    [MetricName |-> name, MetricType |-> "", MetricValues |-> <<>>, Error |-> err]

VectorMetric(name, now, value) ==
    [MetricName |-> name, MetricType |-> "vector",
     MetricValues |-> << [Sample |-> <<now, value>>] >>, Error |-> ""]

CountElement(name, now, err, value) ==
    IF err # Nil THEN ErrorMetric(name, err) ELSE VectorMetric(name, now, value)

(***************************************************************************)
(* Label selectors (k8s.io/apimachinery/pkg/labels) and listers.  An       *)
(* object is [name, labels]; labels maps a key to its value or NoLabel.    *)
(* A selector is a set of requirements.                                    *)
(***************************************************************************)
Labels(ws, user) ==
    [k \in {WorkspaceLabelKey, UserReferenceLabel} |->
        IF k = WorkspaceLabelKey THEN ws ELSE user]

Everything == {}

SelectorFromSet(key, value) == {[key |-> key, op |-> "=", value |-> value]}

ExistsRequirement(key) == [key |-> key, op |-> "exists", value |-> ""]

Matches(selector, labels) ==
    \A r \in selector :
        IF r.op = "exists" THEN labels[r.key] # NoLabel
        ELSE labels[r.key] # NoLabel /\ labels[r.key] = r.value

\* A lister call: (list, err).  A failing call returns no list.
List(objects, selector, fails) ==
    IF fails THEN [items |-> {}, err |-> ListErrMsg]
    ELSE [items |-> {o \in objects : Matches(selector, o.labels)}, err |-> Nil]

len(items) == Cardinality(items)


(***************************************************************************)
(* GetKubeSphereStats, one list operation at a time.  now is the clock     *)
(* reading taken at entry; fails is the set of kinds whose list operation  *)
(* returns an error during this call.                                      *)
(***************************************************************************)
ClusterTotal_NoFloor(n) == n

ClusterTotal(n) == IF n = 0 THEN 1 ELSE n

ClusterCountStep(res, now, fails) ==
    LET l == List(clusters, Everything, "cluster" \in fails)
        clusterTotal == ClusterTotal(len(l.items))
    IN  Append(res, CountElement(KubeSphereClusterCount, now, l.err, clusterTotal))

WorkspaceCountStep(res, now, fails) ==
    LET l == List(workspaceTemplates, Everything, "workspace" \in fails)
    IN  Append(res, CountElement(KubeSphereWorkspaceCount, now, l.err, len(l.items)))

UserCountStep(res, now, fails) ==
    LET l == List(users, Everything, "user" \in fails)
    IN  Append(res, CountElement(KubeSphereUserCount, now, l.err, len(l.items)))

\* A variant that gives up at the first failing list operation.
GetKubeSphereStats_FailFast(now, fails) ==
    LET r1 == ClusterCountStep(<<>>, now, fails)
        r2 == IF "cluster" \in fails THEN r1 ELSE WorkspaceCountStep(r1, now, fails)
        r3 == IF fails \cap {"cluster", "workspace"} # {} THEN r2
              ELSE UserCountStep(r2, now, fails)
    IN  [Results |-> r3]

GetKubeSphereStats(now, fails) ==
    [Results |->
        UserCountStep(WorkspaceCountStep(ClusterCountStep(<<>>, now, fails),
                                         now, fails), now, fails)]

(***************************************************************************)
(* GetWorkspaceStats(workspace).                                           *)
(***************************************************************************)
WorkspaceSelector(workspace) == SelectorFromSet(WorkspaceLabelKey, workspace)

MemberSelector(workspace) ==
    WorkspaceSelector(workspace) \cup {ExistsRequirement(UserReferenceLabel)}

NamespaceCountStep(res, workspace, now, fails) ==
    LET l == List(namespaces, WorkspaceSelector(workspace), "namespace" \in fails)
    IN  Append(res, CountElement(WorkspaceNamespaceCount, now, l.err, len(l.items)))

DevopsCountStep(res, workspace, now, fails) ==
    LET l == List(devopsProjects, WorkspaceSelector(workspace), "devops" \in fails)
    IN  Append(res, CountElement(WorkspaceDevopsCount, now, l.err, len(l.items)))

MemberCountStep(res, workspace, now, fails) ==
    LET l == List(workspaceRoleBindings, MemberSelector(workspace), "member" \in fails)
    IN  Append(res, CountElement(WorkspaceMemberCount, now, l.err, len(l.items)))

RoleCountStep(res, workspace, now, fails) ==
    LET l == List(workspaceRoles, WorkspaceSelector(workspace), "role" \in fails)
    IN  Append(res, CountElement(WorkspaceRoleCount, now, l.err, len(l.items)))

GetWorkspaceStats(workspace, now, fails) ==
    [Results |->
        RoleCountStep(
            MemberCountStep(
                DevopsCountStep(
                    NamespaceCountStep(<<>>, workspace, now, fails),
                    workspace, now, fails),
                workspace, now, fails),
            workspace, now, fails)]

(***************************************************************************)
(* The counters as operations of the operator.  A caller issues one call,  *)
(* holds the response, and discards it before the next call.               *)
(***************************************************************************)
NoCall == [op |-> "none"]

Idle ==
    /\ stats = NoCall /\ query = NoCall /\ prevQuery = NoCall
    /\ procs = <<>>

CallGetKubeSphereStats ==
    \E now \in Times, fails \in SUBSET ClusterKinds :
        /\ stats = NoCall
        /\ stats' = [op |-> "GetKubeSphereStats", workspace |-> "", now |-> now,
                     fails |-> fails, result |-> GetKubeSphereStats(now, fails)]
        /\ UNCHANGED <<shared, query, prevQuery, procs>>

CallGetWorkspaceStats ==
    \E workspace \in Workspaces, now \in Times, fails \in SUBSET WorkspaceKinds :
        /\ stats = NoCall
        /\ stats' = [op |-> "GetWorkspaceStats", workspace |-> workspace, now |-> now,
                     fails |-> fails,
                     result |-> GetWorkspaceStats(workspace, now, fails)]
        /\ UNCHANGED <<shared, query, prevQuery, procs>>

DiscardStats ==
    /\ stats # NoCall
    /\ stats' = NoCall
    /\ UNCHANGED <<shared, query, prevQuery, procs>>

(***************************************************************************)
(* States of the informer caches and of the API server's objects.          *)
(***************************************************************************)
Absent == Labels("<absent>", "<absent>")

\* The sets of uniquely named objects over the given names and labellings.
ObjectSets(names, labellings) ==
    { {[name |-> n, labels |-> f[n]] : n \in {m \in names : f[m] # Absent}} :
        f \in [names -> labellings \cup {Absent}] }

WorkspaceLabelled == {Labels(ws, NoLabel) : ws \in Workspaces}
BindingLabelled == {Labels(ws, u) : ws \in Workspaces, u \in UserRefs \cup {NoLabel}}

ClusterStoreVaries ==
    /\ clusters \in {1..n : n \in 0..MaxClusters}
    /\ workspaceTemplates \in {1..n : n \in 0..MaxWorkspaces}
    /\ users \in {1..n : n \in 0..MaxUsers}

WorkspaceStoreVaries ==
    /\ namespaces \in ObjectSets({"ns-1"}, WorkspaceLabelled)
    /\ devopsProjects \in ObjectSets({"devops-1"}, WorkspaceLabelled)
    /\ workspaceRoles \in ObjectSets({"role-1"}, WorkspaceLabelled)
    /\ workspaceRoleBindings \in ObjectSets(1..MaxBindings, BindingLabelled)

ClusterStoreEmpty == clusters = {} /\ workspaceTemplates = {} /\ users = {}

WorkspaceStoreEmpty ==
    /\ namespaces = {} /\ devopsProjects = {}
    /\ workspaceRoles = {} /\ workspaceRoleBindings = {}


\* GetKubeSphereStats reads only the first three collections and
\* GetWorkspaceStats only the other four, so each group is varied with
\* the other one empty.
InitStats ==
    /\ \/ ClusterStoreVaries /\ WorkspaceStoreEmpty
       \/ ClusterStoreEmpty /\ WorkspaceStoreVaries
    /\ ReplaceNamespaceFns = {"prometheus"}
    /\ promDown = FALSE
    /\ Idle

NextStats == CallGetKubeSphereStats \/ CallGetWorkspaceStats \/ DiscardStats

SpecStats == InitStats /\ [][NextStats]_vars

(***************************************************************************)
(* The monitoring backend client (monitoring.Interface) as the facade      *)
(* sees it: a deterministic reader of the backend state.                   *)
(***************************************************************************)
Exprs == {"up", "up{"}
InvalidExprs == {"up{"}
Scopes == {"", "team-a", "team-b"}
Names == {"cluster_cpu_usage", "no_such_metric"}
UnknownNames == {"no_such_metric"}
Steps == {60}
Ranges == {<<s, e, st>> \in Times \X Times \X Steps : s <= e}
QueryOptions == {"cluster"}
LabelNames == {"job"}
Matchers == {<<>>, <<"up">>}
BackendKind == "prometheus"

BackendError(expr) ==
    IF promDown THEN "backend unreachable"
    ELSE IF expr \in InvalidExprs THEN "bad_data: parse error"
    ELSE IF expr \in UnknownNames THEN "unknown named metric"
    ELSE ""

PromGetMetric(expr, time) ==
    IF BackendError(expr) # ""
    THEN [MetricName |-> "", MetricType |-> "", MetricValues |-> <<>>,
          Error |-> BackendError(expr)]
    ELSE [MetricName |-> "", MetricType |-> "vector",
          MetricValues |-> << [Metadata |-> expr, Sample |-> <<time, 1>>] >>,
          Error |-> ""]

PromGetMetricOverTime(expr, start, end, step) ==
    IF BackendError(expr) # ""
    THEN [MetricName |-> "", MetricType |-> "", MetricValues |-> <<>>,
          Error |-> BackendError(expr)]
    ELSE [MetricName |-> "", MetricType |-> "matrix",
          MetricValues |-> << [Metadata |-> expr, Series |-> <<start, end, step>>] >>,
          Error |-> ""]

\* One result per requested name, in request order; a failure stays in
\* the element of the name it belongs to.
PromGetNamedMetrics(metrics, time, opt) ==
    [i \in 1..Len(metrics) |->
        [PromGetMetric(metrics[i], time) EXCEPT !.MetricName = metrics[i]]]

PromGetNamedMetricsOverTime(metrics, start, end, step, opt) ==
    [i \in 1..Len(metrics) |->
        [PromGetMetricOverTime(metrics[i], start, end, step)
            EXCEPT !.MetricName = metrics[i]]]

PromGetMetadata(namespace) ==
    IF promDown THEN <<>> ELSE << [Metric |-> "up", Scope |-> namespace] >>

PromGetLabelValues(label, matches, start, end) ==
    IF promDown THEN <<>> ELSE << [Label |-> label, Matches |-> matches] >>

PromGetMetricLabelSet(expr, start, end) ==
    IF BackendError(expr) # "" THEN <<>> ELSE << [Selector |-> expr] >>

(***************************************************************************)
(* The rewrite function registered for a backend kind:                     *)
(* (expression, scope) -> (expression, error).                             *)
(***************************************************************************)
ReplaceNamespaceFn(metric, namespace) ==
    IF metric \in InvalidExprs
    THEN [expr |-> "", err |-> "parse error"]
    ELSE [expr |-> metric \o "{namespace=\"" \o namespace \o "\"}", err |-> Nil]

(***************************************************************************)
(* The facade.  Each operator gives the completed call: what the caller    *)
(* passed, the backend invocations made, the registry lookups and rewrite  *)
(* invocations made, how the call ended, and what it returned.             *)
(***************************************************************************)
Invocation(method, args) == [method |-> method, args |-> args]

Completed(op, args, backend, lookups, rewrites, result, err) ==
    [op |-> op, args |-> args, backend |-> backend, lookups |-> lookups,
     rewrites |-> rewrites, outcome |-> "returned", result |-> result, err |-> err]

Panicked(op, args, backend, lookups, rewrites) ==
    [op |-> op, args |-> args, backend |-> backend, lookups |-> lookups,
     rewrites |-> rewrites, outcome |-> "panic", result |-> <<>>, err |-> Nil]

\* A variant that scopes the expression as GetMetricLabelSet does.
GetMetric_Scoped(expr, namespace, time) ==
    LET e == IF namespace # "" /\ expr \notin InvalidExprs
             THEN ReplaceNamespaceFn(expr, namespace).expr ELSE expr
    IN  Completed("GetMetric",
                  [expr |-> expr, namespace |-> namespace, time |-> <<time>>],
                  << Invocation("GetMetric", <<e, time>>) >>, 0, <<>>,
                  PromGetMetric(e, time), Nil)

\* A variant that hands a backend failure to the caller as an error.
GetMetric_PropagateErr(expr, namespace, time) ==
    LET m == PromGetMetric(expr, time)
    IN  Completed("GetMetric",
                  [expr |-> expr, namespace |-> namespace, time |-> <<time>>],
                  << Invocation("GetMetric", <<expr, time>>) >>, 0, <<>>,
                  m, IF m.Error # "" THEN m.Error ELSE Nil)

GetMetric(expr, namespace, time) ==
    Completed("GetMetric",
              [expr |-> expr, namespace |-> namespace, time |-> <<time>>],
              << Invocation("GetMetric", <<expr, time>>) >>, 0, <<>>,
              PromGetMetric(expr, time), Nil)

GetMetricOverTime(expr, namespace, start, end, step) ==
    Completed("GetMetricOverTime",
              [expr |-> expr, namespace |-> namespace, time |-> <<start, end, step>>],
              << Invocation("GetMetricOverTime", <<expr, start, end, step>>) >>,
              0, <<>>,
              PromGetMetricOverTime(expr, start, end, step), Nil)

\* A variant that leaves the failed lookups out of the response.
GetNamedMetrics_DropFailed(metrics, time, opt) ==
    LET ress == PromGetNamedMetrics(metrics, time, opt)
    IN  Completed("GetNamedMetrics",
                  [metrics |-> metrics, time |-> <<time>>, opt |-> opt],
                  << Invocation("GetNamedMetrics", <<metrics, time, opt>>) >>,
                  0, <<>>,
                  [Results |-> SelectSeq(ress, LAMBDA m : m.Error = "")], Nil)

GetNamedMetrics(metrics, time, opt) ==
    LET ress == PromGetNamedMetrics(metrics, time, opt)
    IN  Completed("GetNamedMetrics",
                  [metrics |-> metrics, time |-> <<time>>, opt |-> opt],
                  << Invocation("GetNamedMetrics", <<metrics, time, opt>>) >>,
                  0, <<>>,
                  [Results |-> ress], Nil)

GetNamedMetricsOverTime(metrics, start, end, step, opt) ==
    LET ress == PromGetNamedMetricsOverTime(metrics, start, end, step, opt)
    IN  Completed("GetNamedMetricsOverTime",
                  [metrics |-> metrics, time |-> <<start, end, step>>, opt |-> opt],
                  << Invocation("GetNamedMetricsOverTime",
                                <<metrics, start, end, step, opt>>) >>,
                  0, <<>>,
                  [Results |-> ress], Nil)

GetMetadata(namespace) ==
    Completed("GetMetadata", [namespace |-> namespace],
              << Invocation("GetMetadata", <<namespace>>) >>, 0, <<>>,
              [Data |-> PromGetMetadata(namespace)], Nil)

GetLabelValues(label, matches, start, end) ==
    Completed("GetLabelValues",
              [label |-> label, matches |-> matches, time |-> <<start, end>>],
              << Invocation("GetLabelValues", <<label, matches, start, end>>) >>,
              0, <<>>,
              [Data |-> PromGetLabelValues(label, matches, start, end)], Nil)

EmptyMetricLabelSet == [Data |-> <<>>]

\* A variant that queries the backend with the original metric when the
\* rewrite fails.
GetMetricLabelSet_IgnoreRewriteErr(metric, namespace, start, end) ==
    LET args == [expr |-> metric, namespace |-> namespace, time |-> <<start, end>>]
        r == ReplaceNamespaceFn(metric, namespace)
        expr == IF namespace # "" /\ r.err = Nil THEN r.expr ELSE metric
    IN  IF namespace # "" /\ BackendKind \notin ReplaceNamespaceFns
        THEN Panicked("GetMetricLabelSet", args, <<>>, 1, <<>>)
        ELSE Completed("GetMetricLabelSet", args,
                       << Invocation("GetMetricLabelSet", <<expr, start, end>>) >>,
                       IF namespace # "" THEN 1 ELSE 0,
                       IF namespace # "" THEN << <<metric, namespace>> >> ELSE <<>>,
                       [Data |-> PromGetMetricLabelSet(expr, start, end)], Nil)

\* A variant that consults the registry and rewrites whatever the scope.
GetMetricLabelSet_AlwaysRewrite(metric, namespace, start, end) ==
    LET args == [expr |-> metric, namespace |-> namespace, time |-> <<start, end>>]
        r == ReplaceNamespaceFn(metric, namespace)
    IN  IF BackendKind \notin ReplaceNamespaceFns
        THEN Panicked("GetMetricLabelSet", args, <<>>, 1, <<>>)
        ELSE IF r.err # Nil
        THEN Completed("GetMetricLabelSet", args, <<>>, 1,
                       << <<metric, namespace>> >>, EmptyMetricLabelSet, Nil)
        ELSE Completed("GetMetricLabelSet", args,
                       << Invocation("GetMetricLabelSet", <<r.expr, start, end>>) >>,
                       1, << <<metric, namespace>> >>,
                       [Data |-> PromGetMetricLabelSet(r.expr, start, end)], Nil)

GetMetricLabelSet(metric, namespace, start, end) ==
    LET args == [expr |-> metric, namespace |-> namespace, time |-> <<start, end>>]
        r == ReplaceNamespaceFn(metric, namespace)
    IN  IF namespace # ""
        THEN IF BackendKind \notin ReplaceNamespaceFns
             THEN \* the registry gives a nil function; calling it panics
                  Panicked("GetMetricLabelSet", args, <<>>, 1, <<>>)
             ELSE IF r.err # Nil
             THEN Completed("GetMetricLabelSet", args, <<>>, 1,
                            << <<metric, namespace>> >>, EmptyMetricLabelSet, Nil)
             ELSE Completed("GetMetricLabelSet", args,
                            << Invocation("GetMetricLabelSet", <<r.expr, start, end>>) >>,
                            1, << <<metric, namespace>> >>,
                            [Data |-> PromGetMetricLabelSet(r.expr, start, end)], Nil)
        ELSE Completed("GetMetricLabelSet", args,
                       << Invocation("GetMetricLabelSet", <<metric, start, end>>) >>,
                       0, <<>>,
                       [Data |-> PromGetMetricLabelSet(metric, start, end)], Nil)

(***************************************************************************)
(* The facade operations.  A call that completes becomes the most recent   *)
(* call; none of them writes anything else.  The caller holds at most two  *)
(* responses and discards them before calling again.                       *)
(***************************************************************************)
NameSeqs == UNION {[1..n -> Names] : n \in 0..MaxNames}

CallGetMetric ==
    \E expr \in Exprs, namespace \in Scopes, time \in Times :
        /\ prevQuery = NoCall
        /\ query' = GetMetric(expr, namespace, time)
        /\ prevQuery' = query
        /\ UNCHANGED <<shared, stats, procs>>

CallGetMetricOverTime ==
    \E expr \in Exprs, namespace \in Scopes, r \in Ranges :
        /\ prevQuery = NoCall
        /\ query' = GetMetricOverTime(expr, namespace, r[1], r[2], r[3])
        /\ prevQuery' = query
        /\ UNCHANGED <<shared, stats, procs>>

CallGetNamedMetrics ==
    \E metrics \in NameSeqs, time \in Times, opt \in QueryOptions :
        /\ prevQuery = NoCall
        /\ query' = GetNamedMetrics(metrics, time, opt)
        /\ prevQuery' = query
        /\ UNCHANGED <<shared, stats, procs>>

CallGetNamedMetricsOverTime ==
    \E metrics \in NameSeqs, r \in Ranges, opt \in QueryOptions :
        /\ prevQuery = NoCall
        /\ query' = GetNamedMetricsOverTime(metrics, r[1], r[2], r[3], opt)
        /\ prevQuery' = query
        /\ UNCHANGED <<shared, stats, procs>>

CallGetMetadata ==
    \E namespace \in Scopes :
        /\ prevQuery = NoCall
        /\ query' = GetMetadata(namespace)
        /\ prevQuery' = query
        /\ UNCHANGED <<shared, stats, procs>>

CallGetLabelValues ==
    \E label \in LabelNames, matches \in Matchers, r \in Ranges :
        /\ prevQuery = NoCall
        /\ query' = GetLabelValues(label, matches, r[1], r[2])
        /\ prevQuery' = query
        /\ UNCHANGED <<shared, stats, procs>>

CallGetMetricLabelSet ==
    \E metric \in Exprs, namespace \in Scopes, r \in Ranges :
        /\ prevQuery = NoCall
        /\ query' = GetMetricLabelSet(metric, namespace, r[1], r[2])
        /\ prevQuery' = query
        /\ UNCHANGED <<shared, stats, procs>>

DiscardQueries ==
    /\ query # NoCall
    /\ query' = NoCall
    /\ prevQuery' = NoCall
    /\ UNCHANGED <<shared, stats, procs>>

\* The registry either holds the rewrite function of the backend kind or
\* holds nothing; the backend is reachable or not.
InitQuery ==
    /\ ClusterStoreEmpty /\ WorkspaceStoreEmpty
    /\ ReplaceNamespaceFns \in {{}, {BackendKind}}
    /\ promDown \in BOOLEAN
    /\ Idle

NextQuery ==
    \/ CallGetMetric
    \/ CallGetMetricOverTime
    \/ CallGetNamedMetrics
    \/ CallGetNamedMetricsOverTime
    \/ CallGetMetadata
    \/ CallGetLabelValues
    \/ CallGetMetricLabelSet
    \/ DiscardQueries

SpecQuery == InitQuery /\ [][NextQuery]_vars

(***************************************************************************)
(* Properties of the counters.                                             *)
(***************************************************************************)
IsErrorElement(m) == m.Error # "" /\ m.MetricValues = <<>>

IsCountElement(m) == m.Error = "" /\ Len(m.MetricValues) = 1

SampleValue(m) == m.MetricValues[1].Sample[2]

ClusterOrder == <<"cluster", "workspace", "user">>
ClusterNames ==
    <<KubeSphereClusterCount, KubeSphereWorkspaceCount, KubeSphereUserCount>>

WorkspaceOrder == <<"namespace", "devops", "member", "role">>
WorkspaceNames ==
    <<WorkspaceNamespaceCount, WorkspaceDevopsCount, WorkspaceMemberCount,
      WorkspaceRoleCount>>

ShapedBy(results, order, names, fails) ==
    /\ Len(results) = Len(order)
    /\ \A i \in 1..Len(order) :
        /\ results[i].MetricName = names[i]
        /\ IsErrorElement(results[i]) <=> order[i] \in fails
        /\ order[i] \notin fails => IsCountElement(results[i])

\* C1: whatever list operations fail, GetKubeSphereStats returns the three
\* elements [cluster, workspace, user] and GetWorkspaceStats the four
\* elements [namespace, devops, member, role], in that order; the element
\* of a kind is an error element exactly when that kind's list operation
\* failed and otherwise carries exactly one sample.
C1_FailureIsolated ==
    /\ stats.op = "GetKubeSphereStats" =>
            ShapedBy(stats.result.Results, ClusterOrder, ClusterNames, stats.fails)
    /\ stats.op = "GetWorkspaceStats" =>
            ShapedBy(stats.result.Results, WorkspaceOrder, WorkspaceNames, stats.fails)

C1_Witness ==
    /\ stats.op = "GetKubeSphereStats"
    /\ stats.fails = {"cluster", "workspace"}
    /\ Len(stats.result.Results) = 3
    /\ IsErrorElement(stats.result.Results[1])
    /\ IsCountElement(stats.result.Results[3])

\* C2: when the cluster list operation succeeds with n clusters the cluster
\* element reports max(1, n), never 0; the workspace and user elements
\* report the exact list lengths; 0 clusters, 3 workspaces and 5 users give
\* [1, 3, 5].
C2_ClusterFloor ==
    stats.op = "GetKubeSphereStats" =>
        LET r == stats.result.Results
            n == Cardinality(clusters)
        IN  /\ "cluster" \notin stats.fails =>
                    /\ SampleValue(r[1]) = (IF n >= 1 THEN n ELSE 1)
                    /\ SampleValue(r[1]) # 0
            /\ "workspace" \notin stats.fails =>
                    SampleValue(r[2]) = Cardinality(workspaceTemplates)
            /\ "user" \notin stats.fails =>
                    SampleValue(r[3]) = Cardinality(users)
            /\ (/\ stats.fails = {}
                /\ n = 0
                /\ Cardinality(workspaceTemplates) = 3
                /\ Cardinality(users) = 5) =>
                    <<SampleValue(r[1]), SampleValue(r[2]), SampleValue(r[3])>>
                        = <<1, 3, 5>>

C2_Witness ==
    /\ stats.op = "GetKubeSphereStats"
    /\ stats.fails = {}
    /\ clusters = {}
    /\ Cardinality(workspaceTemplates) = 3
    /\ Cardinality(users) = 5
    /\ SampleValue(stats.result.Results[1]) = 1

\* The distinct members of a workspace: the users referenced by the role
\* bindings labelled with the workspace.
DistinctMembers(workspace) ==
    {b.labels[UserReferenceLabel] :
        b \in {x \in workspaceRoleBindings :
                  /\ x.labels[WorkspaceLabelKey] = workspace
                  /\ x.labels[UserReferenceLabel] # NoLabel}}

\* C7: the member element of GetWorkspaceStats(workspace) is the number of
\* distinct members among the role bindings of that workspace that carry a
\* user-reference label; a member with several bindings counts once.
C7_DistinctMembers ==
    (stats.op = "GetWorkspaceStats" /\ "member" \notin stats.fails) =>
        SampleValue(stats.result.Results[3])
            = Cardinality(DistinctMembers(stats.workspace))

(***************************************************************************)
(* Properties of the facade.  Each is stated of a completed call and       *)
(* asserted of both calls held.                                            *)
(***************************************************************************)
IsNamed(c) == c.op \in {"GetNamedMetrics", "GetNamedMetricsOverTime"}

IsSingle(c) == c.op \in {"GetMetric", "GetMetricOverTime"}

IsLabelSet(c) == c.op = "GetMetricLabelSet"

Registered == BackendKind \in ReplaceNamespaceFns

NamedInOrder(c) ==
    IsNamed(c) =>
        /\ c.outcome = "returned"
        /\ Len(c.result.Results) = Len(c.args.metrics)
        /\ \A i \in 1..Len(c.args.metrics) :
            /\ c.result.Results[i].MetricName = c.args.metrics[i]
            /\ c.result.Results[i].Error = BackendError(c.args.metrics[i])

NoRegistryReturnsEmpty(c) ==
    (IsLabelSet(c) /\ c.args.namespace # "" /\ ~Registered) =>
        /\ c.outcome = "returned"
        /\ c.result = EmptyMetricLabelSet

\* C4: GetMetricLabelSet with a non-empty scope and no rewrite function
\* registered for "prometheus" returns the empty MetricLabelSet and does
\* not raise.
C4_NoRegistryReturnsEmpty ==
    NoRegistryReturnsEmpty(query) /\ NoRegistryReturnsEmpty(prevQuery)

RewriteDecides(c) ==
    (IsLabelSet(c) /\ c.args.namespace # "" /\ Registered) =>
        LET r == ReplaceNamespaceFn(c.args.expr, c.args.namespace)
        IN  /\ c.rewrites = << <<c.args.expr, c.args.namespace>> >>
            /\ c.outcome = "returned"
            /\ c.err = Nil
            /\ r.err # Nil =>
                    /\ c.result = EmptyMetricLabelSet
                    /\ c.backend = <<>>
            /\ r.err = Nil =>
                    /\ c.backend =
                          << Invocation("GetMetricLabelSet",
                                        <<r.expr, c.args.time[1], c.args.time[2]>>) >>
                    /\ c.backend[1].args[1] # c.args.expr

\* C5: with a non-empty scope, a rewrite error gives the empty
\* MetricLabelSet without any backend label-set lookup and without an
\* error for the caller; a successful rewrite gives exactly one backend
\* lookup, made with the rewritten expression.
C5_RewriteDecides == RewriteDecides(query) /\ RewriteDecides(prevQuery)

C5_Witness ==
    /\ prevQuery.op = "GetMetricLabelSet"
    /\ prevQuery.args.namespace = "team-a"
    /\ prevQuery.args.expr = "up{"
    /\ prevQuery.backend = <<>>
    /\ query.op = "GetMetricLabelSet"
    /\ query.args.namespace = "team-a"
    /\ query.args.expr = "up"
    /\ Len(query.backend) = 1
    /\ query.backend[1].args[1] = "up{namespace=\"team-a\"}"

EmptyScopeBypasses(c) ==
    (IsLabelSet(c) /\ c.args.namespace = "") =>
        /\ c.lookups = 0
        /\ c.rewrites = <<>>
        /\ c.outcome = "returned"
        /\ c.backend =
              << Invocation("GetMetricLabelSet",
                            <<c.args.expr, c.args.time[1], c.args.time[2]>>) >>

\* C6: with an empty scope GetMetricLabelSet never consults the registry
\* and invokes no rewrite function, so it succeeds with an empty registry
\* too, and the backend receives the metric expression as passed.
C6_EmptyScopeBypasses ==
    EmptyScopeBypasses(query) /\ EmptyScopeBypasses(prevQuery)

C6_Witness ==
    /\ query.op = "GetMetricLabelSet"
    /\ query.args.namespace = ""
    /\ query.args.expr = "up"
    /\ ~Registered
    /\ query.outcome = "returned"
    /\ query.backend[1].args[1] = "up"

Verbatim(c) ==
    IsSingle(c) =>
        /\ c.lookups = 0
        /\ c.rewrites = <<>>
        /\ c.backend = << Invocation(c.op, <<c.args.expr>> \o c.args.time) >>

\* C8: GetMetric and GetMetricOverTime ignore the scope: the backend gets
\* the caller's expression and time arguments unmodified, no rewrite
\* function is invoked, and two calls that differ only in the scope make
\* the same backend invocation and return the same result.
C8_ScopeIgnored ==
    /\ Verbatim(query)
    /\ Verbatim(prevQuery)
    /\ (/\ IsSingle(query)
        /\ prevQuery.op = query.op
        /\ prevQuery.args.expr = query.args.expr
        /\ prevQuery.args.time = query.args.time) =>
            /\ prevQuery.backend = query.backend
            /\ prevQuery.result = query.result
            /\ prevQuery.err = query.err

C8_Witness ==
    /\ query.op = "GetMetric"
    /\ prevQuery.op = "GetMetric"
    /\ prevQuery.args.expr = "up"
    /\ query.args.expr = "up"
    /\ prevQuery.args.time = query.args.time
    /\ prevQuery.args.namespace = "team-a"
    /\ query.args.namespace = "team-b"
    /\ Registered
    /\ prevQuery.result = query.result

BackendAnswer(c) ==
    IF c.op = "GetMetric"
    THEN PromGetMetric(c.args.expr, c.args.time[1])
    ELSE PromGetMetricOverTime(c.args.expr, c.args.time[1], c.args.time[2],
                               c.args.time[3])

NilError(c) ==
    IsSingle(c) =>
        /\ c.outcome = "returned"
        /\ c.err = Nil
        /\ c.result = BackendAnswer(c)

\* C10: GetMetric and GetMetricOverTime never return a non-nil error; a
\* backend failure is carried only in the error field of the returned
\* Metric, which is the value the backend returned.
C10_NilError == NilError(query) /\ NilError(prevQuery)

C10_Witness ==
    /\ query.op = "GetMetricOverTime"
    /\ promDown
    /\ query.result.Error = "backend unreachable"
    /\ query.err = Nil

(***************************************************************************)
(* Concurrent callers.  Each caller runs one operation at a time; an       *)
(* operation that makes several delegated reads takes one step per read,   *)
(* so the reads of different callers interleave.  Everything a call        *)
(* builds is in the caller's own record.                                   *)
(***************************************************************************)
Callers == {"a", "b"}

IdleProc == [pc |-> "idle"]

Next3(pc) ==
    CASE pc = "cluster" -> "workspace"
      [] pc = "workspace" -> "user"
      [] pc = "user" -> "done"

Next4(pc) ==
    CASE pc = "namespace" -> "devops"
      [] pc = "devops" -> "member"
      [] pc = "member" -> "role"
      [] pc = "role" -> "done"

Failing(kind, f) == IF f THEN {kind} ELSE {}

BeginKubeSphereStats(p) ==
    \E now \in Times :
        /\ procs[p].pc = "idle"
        /\ procs' = [procs EXCEPT ![p] =
                [pc |-> "cluster", op |-> "GetKubeSphereStats", now |-> now,
                 fails |-> {}, res |-> <<>>]]
        /\ UNCHANGED <<shared, stats, query, prevQuery>>

\* A variant in which the response under construction is not local to
\* the call: every caller running the operation gets the element.
StepKubeSphereStats_SharedRes(p) ==
    \E f \in BOOLEAN :
        LET me == procs[p]
            fails == me.fails \cup Failing(me.pc, f)
            grow(res) ==
                CASE me.pc = "cluster" -> ClusterCountStep(res, me.now, fails)
                  [] me.pc = "workspace" -> WorkspaceCountStep(res, me.now, fails)
                  [] me.pc = "user" -> UserCountStep(res, me.now, fails)
        IN  /\ me.pc \in {"cluster", "workspace", "user"}
            /\ procs' = [q \in Callers |->
                    IF q = p
                    THEN [me EXCEPT !.pc = Next3(me.pc), !.fails = fails,
                                    !.res = grow(me.res)]
                    ELSE IF procs[q].pc \in {"cluster", "workspace", "user"}
                    THEN [procs[q] EXCEPT !.res = grow(procs[q].res)]
                    ELSE procs[q]]
            /\ UNCHANGED <<shared, stats, query, prevQuery>>

StepKubeSphereStats(p) ==
    \E f \in BOOLEAN :
        LET me == procs[p]
            fails == me.fails \cup Failing(me.pc, f)
            res == CASE me.pc = "cluster" -> ClusterCountStep(me.res, me.now, fails)
                     [] me.pc = "workspace" -> WorkspaceCountStep(me.res, me.now, fails)
                     [] me.pc = "user" -> UserCountStep(me.res, me.now, fails)
        IN  /\ me.pc \in {"cluster", "workspace", "user"}
            /\ procs' = [procs EXCEPT ![p] =
                    [me EXCEPT !.pc = Next3(me.pc), !.fails = fails, !.res = res]]
            /\ UNCHANGED <<shared, stats, query, prevQuery>>

BeginWorkspaceStats(p) ==
    \E workspace \in Workspaces, now \in Times :
        /\ procs[p].pc = "idle"
        /\ procs' = [procs EXCEPT ![p] =
                [pc |-> "namespace", op |-> "GetWorkspaceStats",
                 workspace |-> workspace, now |-> now, fails |-> {}, res |-> <<>>]]
        /\ UNCHANGED <<shared, stats, query, prevQuery>>

StepWorkspaceStats(p) ==
    \E f \in BOOLEAN :
        LET me == procs[p]
            fails == me.fails \cup Failing(me.pc, f)
            res == CASE me.pc = "namespace" ->
                            NamespaceCountStep(me.res, me.workspace, me.now, fails)
                     [] me.pc = "devops" ->
                            DevopsCountStep(me.res, me.workspace, me.now, fails)
                     [] me.pc = "member" ->
                            MemberCountStep(me.res, me.workspace, me.now, fails)
                     [] me.pc = "role" ->
                            RoleCountStep(me.res, me.workspace, me.now, fails)
        IN  /\ me.pc \in {"namespace", "devops", "member", "role"}
            /\ procs' = [procs EXCEPT ![p] =
                    [me EXCEPT !.pc = Next4(me.pc), !.fails = fails, !.res = res]]
            /\ UNCHANGED <<shared, stats, query, prevQuery>>

BeginGetMetricLabelSet(p) ==
    \E metric \in Exprs, namespace \in Scopes, r \in Ranges :
        /\ procs[p].pc = "idle"
        /\ procs' = [procs EXCEPT ![p] =
                [pc |-> "rewrite", op |-> "GetMetricLabelSet",
                 args |-> [expr |-> metric, namespace |-> namespace,
                           time |-> <<r[1], r[2]>>],
                 expr |-> metric, lookups |-> 0, rewrites |-> <<>>]]
        /\ UNCHANGED <<shared, stats, query, prevQuery>>

\* Lines 100-110: the registry lookup and the rewrite.
RewriteStep(p) ==
    LET me == procs[p]
        a == me.args
        r == ReplaceNamespaceFn(a.expr, a.namespace)
    IN  /\ me.pc = "rewrite"
        /\ procs' = [procs EXCEPT ![p] =
                IF a.namespace = ""
                THEN [me EXCEPT !.pc = "backend"]
                ELSE IF BackendKind \notin ReplaceNamespaceFns
                THEN [pc |-> "done", op |-> me.op,
                      response |-> Panicked(me.op, a, <<>>, 1, <<>>)]
                ELSE IF r.err # Nil
                THEN [pc |-> "done", op |-> me.op,
                      response |-> Completed(me.op, a, <<>>, 1,
                                             << <<a.expr, a.namespace>> >>,
                                             EmptyMetricLabelSet, Nil)]
                ELSE [me EXCEPT !.pc = "backend", !.expr = r.expr, !.lookups = 1,
                                !.rewrites = << <<a.expr, a.namespace>> >>]]
        /\ UNCHANGED <<shared, stats, query, prevQuery>>

\* Lines 111-112: the backend lookup and the response.
BackendStep(p) ==
    LET me == procs[p]
        a == me.args
    IN  /\ me.pc = "backend"
        /\ procs' = [procs EXCEPT ![p] =
                [pc |-> "done", op |-> me.op,
                 response |->
                    Completed(me.op, a,
                              << Invocation("GetMetricLabelSet",
                                            <<me.expr, a.time[1], a.time[2]>>) >>,
                              me.lookups, me.rewrites,
                              [Data |-> PromGetMetricLabelSet(me.expr, a.time[1],
                                                              a.time[2])],
                              Nil)]]
        /\ UNCHANGED <<shared, stats, query, prevQuery>>

\* The operations that make a single delegated read.
Delegate(p) ==
    /\ procs[p].pc = "idle"
    /\ \E call \in
            {GetMetric(e, n, t) : e \in Exprs, n \in Scopes, t \in Times}
            \cup {GetNamedMetrics(m, t, o) :
                     m \in NameSeqs, t \in Times, o \in QueryOptions}
            \cup {GetMetadata(n) : n \in Scopes} :
          procs' = [procs EXCEPT ![p] =
                [pc |-> "done", op |-> call.op, response |-> call]]
    /\ UNCHANGED <<shared, stats, query, prevQuery>>

\* The counter returns res.
ReturnStats(p) ==
    /\ procs[p].pc = "done"
    /\ procs[p].op \in {"GetKubeSphereStats", "GetWorkspaceStats"}
    /\ procs' = [procs EXCEPT ![p] = IdleProc]
    /\ UNCHANGED <<shared, stats, query, prevQuery>>

Return(p) ==
    /\ procs[p].pc = "done"
    /\ procs[p].op \notin {"GetKubeSphereStats", "GetWorkspaceStats"}
    /\ procs' = [procs EXCEPT ![p] = IdleProc]
    /\ UNCHANGED <<shared, stats, query, prevQuery>>

InitConc ==
    /\ clusters = {}
    /\ workspaceTemplates = 1..MaxWorkspaces
    /\ users = 1..MaxUsers
    /\ namespaces = {[name |-> "ns-1", labels |-> Labels("ws1", NoLabel)]}
    /\ devopsProjects = {}
    /\ workspaceRoles = {[name |-> "role-1", labels |-> Labels("ws2", NoLabel)]}
    /\ workspaceRoleBindings \in ObjectSets(1..MaxBindings, BindingLabelled)
    /\ Cardinality(workspaceRoleBindings) = MaxBindings
    /\ \A b \in workspaceRoleBindings : b.labels[WorkspaceLabelKey] = "ws1"
    /\ \A b \in workspaceRoleBindings : b.labels[UserReferenceLabel] = "alice"
    /\ ReplaceNamespaceFns \in {{}, {BackendKind}}
    /\ promDown \in BOOLEAN
    /\ stats = NoCall /\ query = NoCall /\ prevQuery = NoCall
    /\ procs = [p \in Callers |-> IdleProc]

NextConc ==
    \E p \in Callers :
        \/ BeginKubeSphereStats(p)
        \/ StepKubeSphereStats(p)
        \/ BeginWorkspaceStats(p)
        \/ StepWorkspaceStats(p)
        \/ BeginGetMetricLabelSet(p)
        \/ RewriteStep(p)
        \/ BackendStep(p)
        \/ Delegate(p)
        \/ ReturnStats(p)
        \/ Return(p)

SpecConc == InitConc /\ [][NextConc]_vars

(***************************************************************************)
(* Properties of concurrent calls.                                         *)
(***************************************************************************)
\* What the finished call of caller p returns when run alone against the
\* same state, with the same list failures.
Solo(p) ==
    LET me == procs[p]
    IN  CASE me.op = "GetKubeSphereStats" -> GetKubeSphereStats(me.now, me.fails)
          [] me.op = "GetWorkspaceStats" ->
                GetWorkspaceStats(me.workspace, me.now, me.fails)
          [] me.op = "GetMetricLabelSet" ->
                GetMetricLabelSet(me.response.args.expr, me.response.args.namespace,
                                  me.response.args.time[1], me.response.args.time[2])
          [] me.op = "GetMetric" ->
                GetMetric(me.response.args.expr, me.response.args.namespace,
                          me.response.args.time[1])
          [] me.op = "GetNamedMetrics" ->
                GetNamedMetrics(me.response.args.metrics, me.response.args.time[1],
                                me.response.args.opt)
          [] me.op = "GetMetadata" -> GetMetadata(me.response.args.namespace)

Returned(p) ==
    IF procs[p].op \in {"GetKubeSphereStats", "GetWorkspaceStats"}
    THEN [Results |-> procs[p].res]
    ELSE procs[p].response

DoneEqualsSolo ==
    \A p \in Callers : procs[p].pc = "done" => Returned(p) = Solo(p)

OnlyOwn == \E p \in Callers : \A q \in Callers \ {p} : procs'[q] = procs[q]

\* C9: under any interleaving of concurrent calls no step changes the
\* shared state (the backend clients' state and the rewrite registry),
\* each step writes only the record of the call that takes it, and every
\* finished call returns what it returns when run alone.
C9_Isolated == []DoneEqualsSolo /\ [][UNCHANGED shared /\ OnlyOwn]_vars

C9_Witness ==
    /\ procs["a"].pc = "done"
    /\ procs["a"].op = "GetKubeSphereStats"
    /\ procs["a"].fails = {"workspace"}
    /\ procs["b"].pc = "done"
    /\ procs["b"].op = "GetKubeSphereStats"
    /\ procs["b"].fails = {"cluster", "user"}

=============================================================================
